---- MODULE Spec2Model ----
(***************************************************************************)
(* A model of pnut's ChartData store (src/src/chartdata/ChartData.js):     *)
(* construction (row sanitising, column continuity), the memoized queries, *)
(* framing, frame interpolation and the row transforms; of the             *)
(* GroupedSeries constructor (src/unnamed/part_004); of the preprocessing  *)
(* step normalizeToPercentage (src/src/process/normalizeToPercentage.js)   *)
(* over a Series; and of the aggregates of the earlier ChartData           *)
(* (src/src/records/ChartData.js, src/unnamed/part_001).                   *)
(*                                                                         *)
(* JavaScript values are tagged records [t, n, d, s]: t is the typeof tag  *)
(* ("number", "string", "null", "undefined", "boolean"), n/d a normalised  *)
(* fraction for numbers and s the text of a string.  Numbers are exact     *)
(* fractions, so lerp and fractional frame indexes are computed, not       *)
(* approximated.                                                           *)
(***************************************************************************)
EXTENDS Integers, Sequences, FiniteSets, TLC

VARIABLES
    stores,      \* the ChartData instances created so far: [rows, columns, memos]
    memoTables,  \* the _memos objects; stores[i].memos indexes this sequence
    result,      \* what the last call returned
    call,        \* the last call: operation, receiver, arguments and the
                 \* receiver's memo table as the call found it
    budget,      \* how many more calls this behaviour may make
    inputs       \* the arguments the caller may pass in this behaviour

vars == <<stores, memoTables, result, call, budget, inputs>>

----------------------------------------------------------------------------
(* Bounds of the model *)

\* most rows of a constructed store
MaxRows == 3
\* most ChartData instances alive in one behaviour
MaxStores == 3
\* frame indexes run from -1 to MaxIndex in steps of 1/2
MaxIndex == 2
\* calls in one behaviour of the sequence specification
MaxCalls == 2
\* lerp is tried on the whole numbers from -MaxNumber to MaxNumber
MaxNumber == 3
\* blends run from -1/2 to 3/2 in steps of 1/(2 * HalfBlendSteps)
HalfBlendSteps == 2

----------------------------------------------------------------------------
(* Values *)

Abs(x) == IF x < 0 THEN -x ELSE x

RECURSIVE Gcd(_, _)
Gcd(a, b) == IF b = 0 THEN a ELSE Gcd(b, a % b)

\* the number n/d (d > 0), normalised
Num(n, d) ==
    LET g == Gcd(Abs(n), d)
    IN  [t |-> "number", n |-> n \div g, d |-> d \div g, s |-> ""]

Whole(n) == Num(n, 1)
Str(s) == [t |-> "string", n |-> 0, d |-> 1, s |-> s]
Null == [t |-> "null", n |-> 0, d |-> 1, s |-> ""]
Undefined == [t |-> "undefined", n |-> 0, d |-> 1, s |-> ""]
\* not-a-number, which only the aggregates produce
NaN == [t |-> "NaN", n |-> 0, d |-> 1, s |-> ""]
\* a value of a type a row cell may not hold (the boolean true)
BoolTrue == [t |-> "boolean", n |-> 1, d |-> 1, s |-> ""]

IsNumber(v) == v.t = "number"
\* JavaScript's v == null
IsNullish(v) == v.t \in {"null", "undefined"}

Lt(a, b) == a.n * b.d < b.n * a.d
Add(a, b) == Num(a.n * b.d + b.n * a.d, a.d * b.d)
Sub(a, b) == Num(a.n * b.d - b.n * a.d, a.d * b.d)
Mul(a, b) == Num(a.n * b.n, a.d * b.d)
Floor(a) == Whole(a.n \div a.d)
Ceil(a) == Whole(-((-a.n) \div a.d))
\* Math.round: the nearest integer, halves rounded up
Round(a) == Whole((2 * a.n + a.d) \div (2 * a.d))

\* row.get(key) of an Immutable Map: undefined for a key the row lacks
RowGet(row, key) == IF key \in DOMAIN row THEN row[key] ELSE Undefined

\* the distinct elements of a sequence in order of first appearance
RECURSIVE Distinct(_)
Distinct(seq) ==
    IF seq = <<>> THEN <<>>
    ELSE LET init == Distinct(SubSeq(seq, 1, Len(seq) - 1))
             last == seq[Len(seq)]
         IN  IF \E i \in 1..Len(init) : init[i] = last
             THEN init ELSE Append(init, last)

\* list.groupBy(f).toList() of Immutable: groups in order of first appearance
\* of their key, each group in list order
GroupBy(rows, key) ==
    LET keys == Distinct([i \in 1..Len(rows) |-> RowGet(rows[i], key)])
        InGroup(k) == LET Test(r) == RowGet(r, key) = k IN SelectSeq(rows, Test)
    IN  [i \in 1..Len(keys) |-> InGroup(keys[i])]

----------------------------------------------------------------------------
(* Construction *)

isValueValid(value) == value.t \in {"string", "number", "null"}

isValueContinuous(value) == value.t = "number"

\* _createRows keeping every cell as it is given
_createRows_Unchecked(rows) == rows

_createRows(rows) ==
    [i \in 1..Len(rows) |->
        [k \in DOMAIN rows[i] |->
            IF isValueValid(rows[i][k]) THEN rows[i][k] ELSE Null]]

\* the ChartColumn record: key, label and isContinuous of the map it is given
Column(col) ==
    [key |-> col.key, label |-> col.label, isContinuous |-> col.isContinuous]

\* _addContinuous looking at the first row, whether its value is null or not
_addContinuous_FirstRow(col, rows) ==
    IF col.isContinuous = "true" THEN col
    ELSE [col EXCEPT !.isContinuous =
             IF rows # <<>> /\ isValueContinuous(RowGet(rows[1], col.key))
             THEN "true" ELSE "false"]

\* isContinuous is "true", "false" or, in a declaration that leaves it out,
\* "undefined"; rows is always a List, so !rows is false
_addContinuous(col, rows) ==
    IF col.isContinuous = "true" THEN col
    ELSE LET found == {i \in 1..Len(rows) : ~IsNullish(RowGet(rows[i], col.key))}
             first == CHOOSE i \in found : \A j \in found : i <= j
             isContinuous ==
                 IF found = {} THEN isValueContinuous(RowGet(<<>>, col.key))
                 ELSE isValueContinuous(RowGet(rows[first], col.key))
         IN  [col EXCEPT !.isContinuous =
                 IF isContinuous THEN "true" ELSE "false"]

_createColumns(columns, chartDataRows) ==
    [i \in 1..Len(columns) |-> Column(_addContinuous(columns[i], chartDataRows))]

\* new ChartData(rows, columns), its _memos being table number memos
ChartData(rows, columns, memos) ==
    [rows |-> _createRows(rows),
     columns |-> _createColumns(columns, _createRows(rows)),
     memos |-> memos]

----------------------------------------------------------------------------
(* Return values and the memo table *)

\* a returned or memoized value: kind says what v holds
Ret(kind, v) == [kind |-> kind, v |-> v]
NullRet == Ret("null", 0)
\* an uncaught TypeError
ThrowRet == Ret("throw", 0)
\* a ChartData instance, by its position in stores
StoreRet(id) == Ret("store", id)

\* what a method did: its return value, the receiver's memo table afterwards
\* and the instances it constructed
Outcome(ret, memo, created) == [ret |-> ret, memo |-> memo, created |-> created]

\* this._memos = {}
EmptyMemo == [k \in {} |-> NullRet]

\* one memo table shared by every instance
NewMemos_Shared(id) == 1

\* the memo table a newly constructed instance number id gets: its own
NewMemos(id) == id

\* a lookup that never finds the key
_memoHas_Never(memo, key) == FALSE

_memoHas(memo, key) == key \in DOMAIN memo

_memoSet(memo, key, value) == [k \in DOMAIN memo \cup {key} |->
                                 IF k = key THEN value ELSE memo[k]]

_memoize(memo, key, value) ==
    IF _memoHas(memo, key)
    THEN Outcome(memo[key], memo, <<>>)
    ELSE Outcome(value, _memoSet(memo, key, value), <<>>)

----------------------------------------------------------------------------
(* Validation *)

_columnError(this, column) ==
    ~\E i \in 1..Len(this.columns) : this.columns[i].key = column

\* an index test that lets a negative index pass
_indexError_NoLowerBound(index, max, integer) == (IsNumber(max) /\ max.n # 0 /\ Lt(max, index)) \/ (integer /\ Round(index) # index)

\* max is a number, null or undefined; "max &&" is false for 0 as well
_indexError(index, max, integer) ==
    \/ Lt(index, Whole(0))
    \/ (IsNumber(max) /\ max.n # 0 /\ Lt(max, index))
    \/ (integer /\ Round(index) # index)

----------------------------------------------------------------------------
(* Queries *)

getColumnData(this, memo, column) ==
    IF _columnError(this, column) THEN Outcome(NullRet, memo, <<>>)
    ELSE _memoize(memo, "getColumnData." \o column,
            Ret("list", [i \in 1..Len(this.rows) |-> RowGet(this.rows[i], column)]))

getUniqueValues(this, memo, column) ==
    IF _columnError(this, column) THEN Outcome(NullRet, memo, <<>>)
    ELSE _memoize(memo, "getUniqueValues." \o column,
            Ret("list", Distinct([i \in 1..Len(this.rows) |->
                                    RowGet(this.rows[i], column)])))

\* the rows cut into runs of consecutive rows with one value of key
RECURSIVE Runs(_, _)
Runs(rows, key) ==
    IF rows = <<>> THEN <<>>
    ELSE LET init == Runs(SubSeq(rows, 1, Len(rows) - 1), key)
             last == rows[Len(rows)]
         IN  IF init # <<>> /\ RowGet(init[Len(init)][1], key) = RowGet(last, key)
             THEN [init EXCEPT ![Len(init)] = Append(@, last)]
             ELSE Append(init, <<last>>)

\* makeFrames starting a frame wherever the value of column changes
makeFrames_Runs(this, memo, column) ==
    IF _columnError(this, column) THEN Outcome(NullRet, memo, <<>>)
    ELSE _memoize(memo, "makeFrames." \o column,
            Ret("frames", Runs(this.rows, column)))

makeFrames(this, memo, column) ==
    IF _columnError(this, column) THEN Outcome(NullRet, memo, <<>>)
    ELSE _memoize(memo, "makeFrames." \o column,
            Ret("frames", GroupBy(this.rows, column)))

\* frames.get(index) handed to the constructor: List(undefined) is the empty List
FrameRows(frames, index) ==
    IF index.n + 1 \in 1..Len(frames) THEN frames[index.n + 1] ELSE <<>>

\* id is the position the next constructed instance takes in stores
frameAtIndex(this, memo, id, frameColumn, index) ==
    IF _columnError(this, frameColumn) \/ _indexError(index, Undefined, TRUE)
    THEN Outcome(NullRet, memo, <<>>)
    ELSE LET key == "frameAtIndex." \o frameColumn \o "[" \o ToString(index.n) \o "]"
             made == makeFrames(this, memo, frameColumn)
             frames == made.ret.v
         IN  IF _memoHas(memo, key) THEN Outcome(memo[key], memo, <<>>)
             ELSE IF _indexError(index, Whole(Len(frames) - 1), TRUE)
             THEN Outcome(NullRet, _memoSet(made.memo, key, NullRet), <<>>)
             ELSE Outcome(StoreRet(id),
                          _memoSet(made.memo, key, StoreRet(id)),
                          <<ChartData(FrameRows(frames, index), this.columns,
                                      NewMemos(id))>>)

\* lerp testing the types before it tests for null
lerp_TypeBeforeNull(valueA, valueB, blend) ==
    IF blend = Whole(0) THEN valueA
    ELSE IF blend = Whole(1) THEN valueB
    ELSE IF Lt(blend, Whole(0)) \/ Lt(Whole(1), blend) THEN Null
    ELSE IF (~IsNumber(valueA) /\ ~IsNullish(valueA))
            \/ (~IsNumber(valueB) /\ ~IsNullish(valueB)) THEN valueA
    ELSE IF IsNullish(valueA) \/ IsNullish(valueB) THEN Null
    ELSE Add(Mul(Sub(valueB, valueA), blend), valueA)

\* lerp with the values returned at blend 0 and 1 exchanged
lerp_EndsExchanged(valueA, valueB, blend) ==
    IF blend = Whole(0) THEN valueB
    ELSE IF blend = Whole(1) THEN valueA
    ELSE IF Lt(blend, Whole(0)) \/ Lt(Whole(1), blend) THEN Null
    ELSE IF IsNullish(valueA) \/ IsNullish(valueB) THEN Null
    ELSE IF ~IsNumber(valueA) \/ ~IsNumber(valueB) THEN valueA
    ELSE Add(Mul(Sub(valueB, valueA), blend), valueA)

lerp(valueA, valueB, blend) ==
    IF blend = Whole(0) THEN valueA
    ELSE IF blend = Whole(1) THEN valueB
    ELSE IF Lt(blend, Whole(0)) \/ Lt(Whole(1), blend) THEN Null
    ELSE IF IsNullish(valueA) \/ IsNullish(valueB) THEN Null
    ELSE IF ~IsNumber(valueA) \/ ~IsNumber(valueB) THEN valueA
    ELSE Add(Mul(Sub(valueB, valueA), blend), valueA)

\* getRowFromFrame taking the last matching row
getRowFromFrame_Last(frame, primaryColumn, primaryValue) ==
    LET Test(r) == RowGet(r, primaryColumn) = primaryValue
        rowList == SelectSeq(frame, Test)
    IN  IF rowList = <<>> THEN <<>> ELSE <<rowList[Len(rowList)]>>

\* getRowFromFrame over frame.groupBy(primaryColumn): the first row of the
\* frame whose primaryColumn is primaryValue, or <<>> standing for null
getRowFromFrame(frame, primaryColumn, primaryValue) ==
    LET Test(r) == RowGet(r, primaryColumn) = primaryValue
        rowList == SelectSeq(frame, Test)
    IN  IF rowList = <<>> THEN <<>> ELSE <<rowList[1]>>

\* interpolatedRow taking the columns it does not interpolate from frame b
interpolatedRow_FromB(this, primaryColumn, rowA, rowB, blend) ==
    [key \in {this.columns[i].key : i \in 1..Len(this.columns)} |->
        LET column == CHOOSE c \in {this.columns[i] : i \in 1..Len(this.columns)} :
                          c.key = key
        IN  IF column.isContinuous = "true" /\ key # primaryColumn
            THEN lerp(RowGet(rowA, key), RowGet(rowB, key), blend)
            ELSE RowGet(rowB, key)]

\* the row built for one matched pair by reducing over this.columns
interpolatedRow(this, primaryColumn, rowA, rowB, blend) ==
    [key \in {this.columns[i].key : i \in 1..Len(this.columns)} |->
        LET column == CHOOSE c \in {this.columns[i] : i \in 1..Len(this.columns)} :
                          c.key = key
        IN  IF column.isContinuous = "true" /\ key # primaryColumn
            THEN lerp(RowGet(rowA, key), RowGet(rowB, key), blend)
            ELSE RowGet(rowA, key)]

interpolatedFrame(this, primaryColumn, allPrimaryValues, frameA, frameB, blend) ==
    LET Matched(v) == /\ getRowFromFrame(frameA, primaryColumn, v) # <<>>
                      /\ getRowFromFrame(frameB, primaryColumn, v) # <<>>
        kept == SelectSeq(allPrimaryValues, Matched)
    IN  [i \in 1..Len(kept) |->
            interpolatedRow(this, primaryColumn,
                            getRowFromFrame(frameA, primaryColumn, kept[i])[1],
                            getRowFromFrame(frameB, primaryColumn, kept[i])[1],
                            blend)]

\* frameAtIndexInterpolated once the arguments are validated and the index
\* is known to be fractional
interpolateFrames(this, memo, id, frameColumn, primaryColumn, index) ==
    LET made == makeFrames(this, memo, frameColumn)
        frames == made.ret.v
        uniq == getUniqueValues(this, made.memo, primaryColumn)
        indexA == Floor(index)
        indexB == Ceil(index)
        blend == Sub(index, indexA)
    IN  IF _indexError(index, Whole(Len(frames) - 1), FALSE)
        THEN Outcome(NullRet, made.memo, <<>>)
        ELSE IF indexA.n + 1 > Len(frames) \/ indexB.n + 1 > Len(frames)
        \* frames.get(...) is undefined and .groupBy on it throws
        THEN Outcome(ThrowRet, uniq.memo, <<>>)
        ELSE Outcome(StoreRet(id), uniq.memo,
                     <<ChartData(interpolatedFrame(this, primaryColumn, uniq.ret.v,
                                                   frames[indexA.n + 1],
                                                   frames[indexB.n + 1], blend),
                                 this.columns, NewMemos(id))>>)

\* frameAtIndexInterpolated interpolating at integral indexes too
frameAtIndexInterpolated_NoShortcut(this, memo, id, frameColumn, primaryColumn, index) ==
    IF \/ _columnError(this, frameColumn)
       \/ _columnError(this, primaryColumn)
       \/ _indexError(index, Null, FALSE)
    THEN Outcome(NullRet, memo, <<>>)
    ELSE IF frameColumn = primaryColumn THEN Outcome(NullRet, memo, <<>>)
    ELSE interpolateFrames(this, memo, id, frameColumn, primaryColumn, index)

frameAtIndexInterpolated(this, memo, id, frameColumn, primaryColumn, index) ==
    IF \/ _columnError(this, frameColumn)
       \/ _columnError(this, primaryColumn)
       \/ _indexError(index, Null, FALSE)
    THEN Outcome(NullRet, memo, <<>>)
    ELSE IF frameColumn = primaryColumn THEN Outcome(NullRet, memo, <<>>)
    ELSE IF index = Round(index) THEN frameAtIndex(this, memo, id, frameColumn, index)
    ELSE interpolateFrames(this, memo, id, frameColumn, primaryColumn, index)

----------------------------------------------------------------------------
(* Aggregates *)

\* a string becomes a one-element List, an Array a List; the model passes
\* the list of keys in both cases
_columnArgList(columns) == columns

\* _columnListError looking at the first column only
_columnListError_First(this, columnList) ==
    columnList # <<>> /\ _columnError(this, columnList[1])

_columnListError(this, columnList) ==
    \E i \in 1..Len(columnList) : _columnError(this, columnList[i])

RECURSIVE Flatten(_)
Flatten(lists) ==
    IF lists = <<>> THEN <<>>
    ELSE Flatten(SubSeq(lists, 1, Len(lists) - 1)) \o lists[Len(lists)]

\* the keys that rows have, in the order in which a row holds them
RowKeys == <<"day", "price", "amount", "day,price">>

\* the cells of one row under the keys of columnList
RowValues(row, columnList) ==
    LET Named(key) == key \in DOMAIN row
                      /\ \E i \in 1..Len(columnList) : columnList[i] = key
    IN  [i \in 1..Len(SelectSeq(RowKeys, Named)) |-> row[SelectSeq(RowKeys, Named)[i]]]

\* _allValuesForColumns taking the first of the named columns only
_allValuesForColumns_FirstColumn(this, columnList) ==
    Flatten([i \in 1..Len(this.rows) |-> RowValues(this.rows[i], <<columnList[1]>>)])

_allValuesForColumns(this, columnList) ==
    Flatten([i \in 1..Len(this.rows) |-> RowValues(this.rows[i], columnList)])

\* columnList.join(',')
RECURSIVE Join(_)
Join(list) ==
    IF list = <<>> THEN ""
    ELSE IF Len(list) = 1 THEN list[1]
    ELSE Join(SubSeq(list, 1, Len(list) - 1)) \o "," \o list[Len(list)]

RECURSIVE SumOf(_)
SumOf(values) ==
    IF values = <<>> THEN Whole(0)
    ELSE Add(SumOf(SubSeq(values, 1, Len(values) - 1)), values[Len(values)])

\* the number of elements of values that are less than v, and not more than v
Below(values, v) == Cardinality({i \in 1..Len(values) : Lt(values[i], v)})
UpTo(values, v) == Cardinality({i \in 1..Len(values) : ~Lt(v, values[i])})

\* the element at position k (from 1) of values sorted in ascending order
Sorted(values, k) ==
    CHOOSE v \in {values[i] : i \in 1..Len(values)} :
        Below(values, v) < k /\ k <= UpTo(values, v)

\* ImmutableMath[operation]() applied to a List of numbers; of an empty List
\* the sum is 0 and the others are NaN or undefined, which isNaN() takes alike
Aggregate(operation, values) ==
    LET size == Len(values)
    IN  CASE operation = "sum" -> SumOf(values)
          [] operation = "min" -> IF size = 0 THEN NaN ELSE Sorted(values, 1)
          [] operation = "max" -> IF size = 0 THEN NaN ELSE Sorted(values, size)
          [] operation = "average" ->
                IF size = 0 THEN NaN ELSE Mul(SumOf(values), Num(1, size))
          [] operation = "median" ->
                IF size = 0 THEN NaN
                ELSE IF size % 2 = 1 THEN Sorted(values, (size + 1) \div 2)
                ELSE Mul(Add(Sorted(values, size \div 2),
                             Sorted(values, size \div 2 + 1)), Num(1, 2))

\* the global isNaN(): of the values of this model the numbers and null
\* (which converts to 0) are not NaN
isNaN(value) == value.t \notin {"number", "null"}

\* _aggregation returning the result as ImmutableMath gave it
_aggregation_NoNaNCheck(this, memo, operation, columns) ==
    LET columnList == _columnArgList(columns)
        NotNull(val) == ~IsNullish(val)
    IN  IF _columnListError(this, columnList) THEN Outcome(NullRet, memo, <<>>)
        ELSE _memoize(memo, operation \o "." \o Join(columnList),
                Ret("scalar",
                    Aggregate(operation,
                              SelectSeq(_allValuesForColumns(this, columnList),
                                        NotNull))))

_aggregation(this, memo, operation, columns) ==
    LET columnList == _columnArgList(columns)
        NotNull(val) == ~IsNullish(val)
        computed == Aggregate(operation,
                              SelectSeq(_allValuesForColumns(this, columnList),
                                        NotNull))
    IN  IF _columnListError(this, columnList) THEN Outcome(NullRet, memo, <<>>)
        ELSE _memoize(memo, operation \o "." \o Join(columnList),
                Ret("scalar", IF isNaN(computed) THEN Null ELSE computed))

----------------------------------------------------------------------------
(* Transforms *)

\* rows is what the updater returned for this.rows
updateRows(this, memo, id, rows) ==
    Outcome(StoreRet(id), memo, <<ChartData(rows, this.columns, NewMemos(id))>>)

\* rows[i] is what the mapper returned for this.rows[i]
mapRows(this, memo, id, rows) ==
    Outcome(StoreRet(id), memo, <<ChartData(rows, this.columns, NewMemos(id))>>)

----------------------------------------------------------------------------
(* Inputs *)

Keys == {"day", "price", "amount"}

\* a column name no store declares
Undeclared == "weight"

\* the values a row given to the constructor may hold under each key
DayCells == {Whole(1), Whole(2)}
PriceCells == {Whole(10), Whole(20)}
AmountCells == {Whole(2), Str("x"), Null}

\* rows of every kind of cell: with every key, or without amount
InputRows ==
    {[day |-> d, price |-> Whole(10), amount |-> a] :
        d \in DayCells, a \in AmountCells}
    \cup {[day |-> d, price |-> Whole(10)] : d \in DayCells}

\* rows that differ in the frame and join columns, and one more that differs
\* from another in amount only
JoinRows ==
    {[day |-> d, price |-> p, amount |-> Whole(2)] :
        d \in DayCells, p \in PriceCells}
    \cup {[day |-> Whole(1), price |-> Whole(10), amount |-> Str("x")]}

SeqsUpTo(S, n) == UNION {[1..m -> S] : m \in 0..n}

Declaration(key, label, isContinuous) ==
    [key |-> key, label |-> label, isContinuous |-> isContinuous]

\* the column declarations given to the constructor
InputColumns ==
    {<<Declaration("day", "Day", "undefined"),
       Declaration("price", "Price", "undefined"),
       Declaration("amount", "Amount", isContinuous)>> :
        isContinuous \in {"undefined", "true", "false"}}

\* what a caller may pass: column names, frame indexes, the columns
\* arguments of the aggregates (columns that hold numbers) and the rows a
\* RowUpdater or RowMapper callback may return, one of them with a cell of a
\* type no row may hold
AllInputs ==
    [columns |-> Keys \cup {Undeclared},
     indexes |-> {Num(k, 2) : k \in -2..(2 * MaxIndex)},
     aggregateArgs |-> {<<"day">>, <<"price">>, <<"day", "price">>, <<Undeclared>>},
     callbackRows |->
        {[day |-> Whole(1), price |-> Whole(10), amount |-> a] :
            a \in {Whole(2), Str("x"), BoolTrue}}]

Operations == {"min", "max", "sum", "average", "median"}

\* what a caller may pass to a store constructed from rows: the aggregates
\* are asked for the amount column too when it holds no string
InputsFor(rows) ==
    IF \E i \in 1..Len(rows) : RowGet(rows[i], "amount").t = "string"
    THEN AllInputs
    ELSE [AllInputs EXCEPT !.aggregateArgs =
             @ \cup {<<"amount">>, <<"price", "amount">>}]

\* the rows of the stores whose behaviours make several calls, and what the
\* caller may pass in them
SeqRows ==
    {[day |-> Whole(1), price |-> Whole(10), amount |-> Whole(2)],
     [day |-> Whole(2), price |-> Whole(10), amount |-> Str("x")]}

SeqInputs ==
    [columns |-> {"day", "price", Undeclared},
     indexes |-> {Whole(0), Num(1, 2), Whole(MaxIndex)},
     aggregateArgs |-> {<<"day", "price">>, <<Undeclared>>, <<"day", Undeclared>>},
     callbackRows |-> {[day |-> Whole(1), price |-> Whole(10), amount |-> Str("x")]}]

----------------------------------------------------------------------------
(* The state machine *)

Call(op, recv, column, primaryColumn, index, rows, columns) ==
    [op |-> op, recv |-> recv, column |-> column, primaryColumn |-> primaryColumn,
     index |-> index, rows |-> rows, columns |-> columns,
     valueA |-> Null, valueB |-> Null, before |-> EmptyMemo]

\* the state after new ChartData(rows, columns)
Constructed(rows, columns, calls, args) ==
    /\ inputs = args
    /\ stores = <<ChartData(rows, columns, NewMemos(1))>>
    /\ memoTables = <<EmptyMemo>>
    /\ result = StoreRet(1)
    /\ call = Call("new", 0, "", "", Null, rows, columns)
    /\ budget = calls

Init ==
    \/ \E rows \in SeqsUpTo(InputRows, MaxRows - 1), columns \in InputColumns :
            Constructed(rows, columns, 1, InputsFor(rows))
    \/ \E rows \in [1..MaxRows -> JoinRows], columns \in InputColumns :
            /\ columns[3].isContinuous = "undefined"
            /\ Constructed(rows, columns, 1, InputsFor(rows))

\* the effect of a method call on the receiver's memo table and on the heap
Effect(out, c) ==
    /\ budget > 0
    /\ Len(stores) + Len(out.created) <= MaxStores
    /\ stores' = stores \o out.created
    /\ memoTables' =
           [memoTables EXCEPT ![stores[c.recv].memos] = out.memo]
               \o [i \in 1..Len(out.created) |-> EmptyMemo]
    /\ result' = out.ret
    /\ call' = [c EXCEPT !.before = memoTables[stores[c.recv].memos]]
    /\ budget' = budget - 1
    /\ UNCHANGED inputs

Memo(recv) == memoTables[stores[recv].memos]

GetColumnData ==
    /\ budget > 0
    /\ \E recv \in 1..Len(stores), column \in inputs.columns :
        Effect(getColumnData(stores[recv], Memo(recv), column),
               Call("getColumnData", recv, column, "", Null, <<>>, <<>>))

GetUniqueValues ==
    /\ budget > 0
    /\ \E recv \in 1..Len(stores), column \in inputs.columns :
        Effect(getUniqueValues(stores[recv], Memo(recv), column),
               Call("getUniqueValues", recv, column, "", Null, <<>>, <<>>))

MakeFrames ==
    /\ budget > 0
    /\ \E recv \in 1..Len(stores), column \in inputs.columns :
        Effect(makeFrames(stores[recv], Memo(recv), column),
               Call("makeFrames", recv, column, "", Null, <<>>, <<>>))

FrameAtIndex ==
    /\ budget > 0
    /\ \E recv \in 1..Len(stores), frameColumn \in inputs.columns, index \in inputs.indexes :
        Effect(frameAtIndex(stores[recv], Memo(recv), Len(stores) + 1,
                            frameColumn, index),
               Call("frameAtIndex", recv, frameColumn, "", index, <<>>, <<>>))

FrameAtIndexInterpolated ==
    /\ budget > 0
    /\ \E recv \in 1..Len(stores), frameColumn \in inputs.columns,
       primaryColumn \in inputs.columns, index \in inputs.indexes :
        Effect(frameAtIndexInterpolated(stores[recv], Memo(recv), Len(stores) + 1,
                                        frameColumn, primaryColumn, index),
               Call("frameAtIndexInterpolated", recv, frameColumn, primaryColumn,
                    index, <<>>, <<>>))

UpdateRows ==
    /\ budget > 0
    /\ \E recv \in 1..Len(stores), rows \in SeqsUpTo(inputs.callbackRows, MaxRows - 1) :
        Effect(updateRows(stores[recv], Memo(recv), Len(stores) + 1, rows),
               Call("updateRows", recv, "", "", Null, rows, <<>>))

MapRows ==
    /\ budget > 0
    /\ \E recv \in 1..Len(stores) :
        \E rows \in [1..Len(stores[recv].rows) -> inputs.callbackRows] :
            Effect(mapRows(stores[recv], Memo(recv), Len(stores) + 1, rows),
                   Call("mapRows", recv, "", "", Null, rows, <<>>))

Aggregation ==
    /\ budget > 0
    /\ \E recv \in 1..Len(stores), operation \in Operations, columns \in inputs.aggregateArgs :
        Effect(_aggregation(stores[recv], Memo(recv), operation, columns),
               [Call(operation, recv, "", "", Null, <<>>, <<>>)
                   EXCEPT !.columns = columns])

Next ==
    \/ Aggregation
    \/ GetColumnData
    \/ GetUniqueValues
    \/ MakeFrames
    \/ FrameAtIndex
    \/ FrameAtIndexInterpolated
    \/ UpdateRows
    \/ MapRows

Spec == Init /\ [][Next]_vars

\* behaviours of MaxCalls calls on a store of two rows and the stores made
\* from it
InitSeq ==
    \E rows \in [1..2 -> SeqRows] :
        Constructed(rows, <<Declaration("day", "Day", "undefined"),
                            Declaration("price", "Price", "undefined"),
                            Declaration("amount", "Amount", "undefined")>>,
                    MaxCalls, SeqInputs)

SpecSeq == InitSeq /\ [][Next]_vars

\* rows of a store one of whose column keys holds a comma
CommaRows ==
    {[key \in {"day", "price", "day,price"} |->
        CASE key = "day" -> day
          [] key = "price" -> Whole(10)
          [] OTHER -> Whole(5)] : day \in DayCells}

\* behaviours of aggregate calls on such a store: for the column whose key
\* holds the comma, for one column and for the list of two columns
InitCommaKey ==
    \E rows \in UNION {[1..m -> CommaRows] : m \in 1..(MaxRows - 1)} :
        Constructed(rows, <<Declaration("day", "Day", "undefined"),
                            Declaration("price", "Price", "undefined"),
                            Declaration("day,price", "Both", "undefined")>>,
                    MaxCalls,
                    [SeqInputs EXCEPT !.aggregateArgs =
                        {<<"day">>, <<"day,price">>, <<"day", "price">>}])

NextCommaKey == Aggregation

SpecCommaKey == InitCommaKey /\ [][NextCommaKey]_vars

----------------------------------------------------------------------------
(* The static ChartData.lerp, called on its own *)

LerpValues ==
    {Whole(n) : n \in (-MaxNumber)..MaxNumber} \cup {Null, Str("a"), Str("b")}

Blends ==
    {Num(k, 2 * HalfBlendSteps) : k \in (-HalfBlendSteps)..(3 * HalfBlendSteps)}

InitLerp ==
    /\ stores = <<>>
    /\ memoTables = <<>>
    /\ result = Ret("none", 0)
    /\ call = Call("none", 0, "", "", Null, <<>>, <<>>)
    /\ budget = 1
    /\ inputs = [values |-> LerpValues, blends |-> Blends]

Lerp ==
    \E valueA \in inputs.values, valueB \in inputs.values, blend \in inputs.blends :
        /\ budget > 0
        /\ result' = Ret("scalar", lerp(valueA, valueB, blend))
        /\ call' = [Call("lerp", 0, "", "", blend, <<>>, <<>>)
                      EXCEPT !.valueA = valueA, !.valueB = valueB]
        /\ budget' = budget - 1
        /\ UNCHANGED <<stores, memoTables, inputs>>

NextLerp == Lerp

SpecLerp == InitLerp /\ [][NextLerp]_vars

----------------------------------------------------------------------------
(* GroupedSeries (src/unnamed/part_004): the constructor, a function of its *)
(* config.  Points are records from keys to values; a key an object lacks   *)
(* reads as undefined.                                                      *)

\* String(value) and the text value becomes when it is added to a string;
\* the numbers of this part are whole
String(value) ==
    CASE value.t = "number" -> ToString(value.n)
      [] value.t = "string" -> value.s
      [] value.t = "null" -> "null"
      [] value.t = "undefined" -> "undefined"
      [] OTHER -> "true"

\* whether value is truthy
Truthy(value) ==
    CASE value.t = "number" -> value.n # 0
      [] value.t = "string" -> value.s # ""
      [] value.t = "boolean" -> TRUE
      [] OTHER -> FALSE

\* {...a, ...b}
Spread(a, b) ==
    [key \in DOMAIN a \cup DOMAIN b |-> IF key \in DOMAIN b THEN b[key] ELSE a[key]]

\* the canonical numeric strings, which an object keeps as integer keys, with
\* the numbers they stand for; the keys of this part have at most two
\* characters
ArrayIndexes == {<<ToString(n), n>> : n \in 0..99}

IsArrayIndex(key) == \E pair \in ArrayIndexes : pair[1] = key

ArrayIndex(key) == (CHOOSE pair \in ArrayIndexes : pair[1] = key)[2]

\* the order in which Object.entries lists the keys of an object that got
\* them in the order of keys: integer keys in ascending order, then the other
\* keys in the order of insertion
ObjectKeys(keys) ==
    LET NotIndex(key) == ~IsArrayIndex(key)
        indexes == SelectSeq(keys, IsArrayIndex)
        Smaller(key) == {i \in 1..Len(indexes) :
                            ArrayIndex(indexes[i]) < ArrayIndex(key)}
    IN  [i \in 1..Len(indexes) |->
            CHOOSE key \in {indexes[j] : j \in 1..Len(indexes)} :
                Cardinality(Smaller(key)) = i - 1]
        \o SelectSeq(keys, NotIndex)

\* the number a value converts to in a comparison with a number, as <<n>>,
\* or <<>> for NaN
ToNumber(value) ==
    CASE value.t = "number" -> <<value.n>>
      [] value.t = "string" ->
            IF IsArrayIndex(value.s) THEN <<ArrayIndex(value.s)>> ELSE <<>>
      [] value.t = "null" -> <<0>>
      [] OTHER -> <<>>

\* a < b of JavaScript; two strings are compared as text, which for the
\* strings that pointKey holds here, single digits, is the order of the digits
Less(a, b) ==
    /\ ToNumber(a) # <<>>
    /\ ToNumber(b) # <<>>
    /\ ToNumber(a)[1] < ToNumber(b)[1]

\* the default pointSort
pointSort(a, b, pointKey) ==
    IF Less(RowGet(b, pointKey), RowGet(a, pointKey)) THEN 1
    ELSE IF Less(RowGet(a, pointKey), RowGet(b, pointKey)) THEN -1
    ELSE 0

\* the points left in the order of the Map
Sort_Unsorted(points, pointKey) == points

\* Array.prototype.sort with pointSort: a stable sort
RECURSIVE Sort(_, _)
Sort(points, pointKey) ==
    IF points = <<>> THEN <<>>
    ELSE LET init == Sort(SubSeq(points, 1, Len(points) - 1), pointKey)
             last == points[Len(points)]
             before == Cardinality({i \in 1..Len(init) :
                                      pointSort(init[i], last, pointKey) <= 0})
         IN  SubSeq(init, 1, before) \o <<last>> \o SubSeq(init, before + 1, Len(init))

\* the last element of a sequence that is not empty
Last(seq) == seq[Len(seq)]

\* the Map baseGroup as the sequence of its entries: one per String(pointValue)
\* in order of first appearance, holding the last pointValue set under it
baseGroup(data, pointKey) ==
    LET keys == Distinct([i \in 1..Len(data) |-> String(RowGet(data[i], pointKey))])
        With(key) == LET Test(item) == String(RowGet(item, pointKey)) = key
                     IN  SelectSeq(data, Test)
    IN  [i \in 1..Len(keys) |->
            [key |-> keys[i],
             value |-> [k \in {pointKey} |-> RowGet(Last(With(keys[i])), pointKey)]]]

\* groupKey.reduce((acc, key) => acc + item[key], '')
RECURSIVE GroupKeyOf(_, _)
GroupKeyOf(item, groupKey) ==
    IF groupKey = <<>> THEN ""
    ELSE GroupKeyOf(item, SubSeq(groupKey, 1, Len(groupKey) - 1))
             \o String(RowGet(item, Last(groupKey)))

\* Object.entries(groupedItems): the entries [key, group] of the object that
\* data is reduced to
groupedItems(data, groupKey) ==
    LET keys == ObjectKeys(Distinct([i \in 1..Len(data) |->
                                        GroupKeyOf(data[i], groupKey)]))
        With(key) == LET Test(item) == GroupKeyOf(item, groupKey) = key
                     IN  SelectSeq(data, Test)
    IN  [i \in 1..Len(keys) |-> [key |-> keys[i], group |-> With(keys[i])]]

\* group.find(ii => ii[key])?.[key] for every key of groupKey
baseValues(group, groupKey) ==
    [key \in {groupKey[i] : i \in 1..Len(groupKey)} |->
        LET Test(item) == Truthy(RowGet(item, key))
            found == SelectSeq(group, Test)
        IN  IF found = <<>> THEN Undefined ELSE RowGet(found[1], key)]

\* groupMap without the points of the base group
groupMap_NoDefaults(base, defaultPoint, values) == <<>>

\* the Map groupMap as the sequence of its entries
groupMap(base, defaultPoint, values) ==
    [i \in 1..Len(base) |->
        [key |-> base[i].key,
         value |-> Spread(Spread(defaultPoint, values), base[i].value)]]

\* group.reduce((map, item) => map.set(...), groupMap): an entry whose key is
\* the String of an item's pointKey takes the last such item; the other
\* entries stay, and keys that map lacks are added in order of appearance
newGroupMap(group, map, defaultPoint, pointKey) ==
    LET With(key) == LET Test(item) == String(RowGet(item, pointKey)) = key
                     IN  SelectSeq(group, Test)
        Added(key) == \A i \in 1..Len(map) : map[i].key # key
        keys == [i \in 1..Len(map) |-> map[i].key]
                \o SelectSeq(Distinct([i \in 1..Len(group) |->
                                          String(RowGet(group[i], pointKey))]), Added)
    IN  [i \in 1..Len(keys) |->
            [key |-> keys[i],
             value |-> IF With(keys[i]) = <<>> THEN map[i].value
                       ELSE Spread(defaultPoint, Last(With(keys[i])))]]

\* a test of pointKey against the first group key only
includes_First(groupKey, pointKey) == groupKey # <<>> /\ groupKey[1] = pointKey

\* groupKey.includes(pointKey)
includes(groupKey, pointKey) == \E i \in 1..Len(groupKey) : groupKey[i] = pointKey

\* new GroupedSeries(config): what it throws, or the fields it gives its
\* superclass; a groupKey given as one string is the list of that string
GroupedSeries(config) ==
    LET pointKey == config.pointKey
        data == config.data
        defaultPoint == config.defaultPoint
        groupKey == config.groupKey
        entries == groupedItems(data, groupKey)
        Group(entry) ==
            LET made == newGroupMap(entry.group,
                                    groupMap(baseGroup(data, pointKey), defaultPoint,
                                             baseValues(entry.group, groupKey)),
                                    defaultPoint, pointKey)
            IN  Sort([i \in 1..Len(made) |-> made[i].value], pointKey)
    IN  IF includes(groupKey, pointKey)
        THEN ThrowRet
        ELSE Ret("series",
                 [pointKey |-> pointKey, groupKey |-> groupKey, rawData |-> data,
                  groups |-> [i \in 1..Len(entries) |-> Group(entries[i])]])

\* most points in the data of a GroupedSeries
MaxPoints == 3

\* the points given as data: the group key type is a string or a number, 0
\* among them; the point key x a number or a digit; points of type foo come
\* with two values, so that points with one type and x differ
Points ==
    {[type |-> type, x |-> x, value |-> Whole(1)] :
        type \in {Str("foo"), Str("bar"), Whole(1), Whole(0)},
        x \in {Whole(0), Whole(1), Str("1")}}
    \cup {[type |-> Str("foo"), x |-> x, value |-> Whole(2)] :
              x \in {Whole(0), Whole(1), Str("1")}}

InitGrouped ==
    /\ stores = <<>>
    /\ memoTables = <<>>
    /\ result = Ret("none", 0)
    /\ call = [op |-> "none"]
    /\ budget = 1
    /\ inputs = [points |-> Points,
                 groupKeys |-> {<<"type">>, <<"type", "value">>, <<"type", "x">>,
                                <<"x">>},
                 defaultPoints |-> {[value |-> Whole(0)]}]

NewGroupedSeries ==
    /\ budget > 0
    /\ \E data \in SeqsUpTo(inputs.points, MaxPoints),
          groupKey \in inputs.groupKeys, defaultPoint \in inputs.defaultPoints :
        LET config == [data |-> data, pointKey |-> "x", groupKey |-> groupKey,
                       defaultPoint |-> defaultPoint]
        IN  /\ result' = GroupedSeries(config)
            /\ call' = [op |-> "GroupedSeries", config |-> config]
            /\ budget' = budget - 1
            /\ UNCHANGED <<stores, memoTables, inputs>>

NextGrouped == NewGroupedSeries

SpecGrouped == InitGrouped /\ [][NextGrouped]_vars

\* points with two group keys whose values are strings, some a prefix of
\* others
KeyPoints ==
    {[type |-> Str(type), unit |-> Str(unit), x |-> Whole(x)] :
        type \in {"a", "ab"}, unit \in {"bc", "c"}, x \in {0, 1}}

\* constructions with a list of group keys
InitGroupedKeys ==
    /\ stores = <<>>
    /\ memoTables = <<>>
    /\ result = Ret("none", 0)
    /\ call = [op |-> "none"]
    /\ budget = 1
    /\ inputs = [points |-> KeyPoints,
                 groupKeys |-> {<<"type", "unit">>, <<"unit", "type">>},
                 defaultPoints |-> {[value |-> Whole(0)]}]

SpecGroupedKeys == InitGroupedKeys /\ [][NextGrouped]_vars

----------------------------------------------------------------------------
(* Series and the preprocessing step normalizeToPercentage                  *)
(* (src/src/process/normalizeToPercentage.js).  A series is held in stores  *)
(* as its groups, each a sequence of points, and its preprocess object.     *)

\* Infinity and -Infinity, by the sign n
Infinity(n) == [t |-> "Infinity", n |-> n, d |-> 1, s |-> ""]

\* value || 0
OrZero(value) == IF Truthy(value) THEN value ELSE Whole(0)

\* a + b for operands that are numbers or strings: the sum of two numbers,
\* and the concatenation of the String forms if one is a string
Plus(a, b) ==
    IF a.t = "number" /\ b.t = "number" THEN Add(a, b)
    ELSE Str(String(a) \o String(b))

\* the number an operand of / converts to, or NaN
NumberOf(value) ==
    CASE value.t = "number" -> value
      [] value.t = "null" -> Whole(0)
      [] value.t = "string" ->
            IF IsArrayIndex(value.s) THEN Whole(ArrayIndex(value.s)) ELSE NaN
      [] OTHER -> NaN

\* a / b
Divide(a, b) ==
    LET x == NumberOf(a)
        y == NumberOf(b)
    IN  IF x = NaN \/ y = NaN THEN NaN
        ELSE IF y.n = 0 THEN (IF x.n = 0 THEN NaN
                              ELSE Infinity(IF x.n > 0 THEN 1 ELSE -1))
        ELSE IF y.n > 0 THEN Num(x.n * y.d, x.d * y.n)
        ELSE Num(-(x.n * y.d), x.d * (-y.n))

\* point.reduce((rr, point) => rr + (point[key] || 0), 0) over the first g
\* points of the slice
RECURSIVE RunningSum(_, _, _)
RunningSum(slice, key, g) ==
    IF g = 0 THEN Whole(0)
    ELSE Plus(RunningSum(slice, key, g - 1), OrZero(RowGet(slice[g], key)))

\* the total of the slice
total(slice, key) == RunningSum(slice, key, Len(slice))

\* next of the callback given to point.map, for point number g of the slice
\* (key is neither originalValue nor percentValue): sum has taken the values
\* of the points up to g when next[key] is set
nextPoint(slice, key, g) ==
    LET value == RowGet(slice[g], key)
    IN  Spread(slice[g],
               [k \in {"originalValue", "percentValue", key} |->
                   CASE k = "originalValue" -> value
                     [] k = "percentValue" -> Divide(OrZero(value), total(slice, key))
                     [] OTHER -> Divide(RunningSum(slice, key, g), total(slice, key))])

\* the callback that normalizeToPercentage gives to mapPoints
nextPoints(slice, key) == [g \in 1..Len(slice) |-> nextPoint(slice, key, g)]

\* a callback, by name
Fn(name, key) == [name |-> name, key |-> key]

\* fn(slice, i): the callback of normalizeToPercentage, and callbacks that
\* mark each point with the index, exchange the ends of the slice, and give
\* the first point to every group
Apply(fn, slice, i) ==
    CASE fn.name = "normalize" -> nextPoints(slice, fn.key)
      [] fn.name = "index" ->
            [g \in 1..Len(slice) |-> Spread(slice[g], [index |-> Whole(i)])]
      [] fn.name = "reverse" ->
            [g \in 1..Len(slice) |-> slice[Len(slice) + 1 - g]]
      [] OTHER -> [g \in 1..Len(slice) |-> slice[1]]

\* series.getPoint(i): point number i (from 0) of every group, in group order
getPoint(groups, i) == [g \in 1..Len(groups) |-> groups[g][i + 1]]

\* a mapPoints that hands every call the first slice
mapPoints_FirstSlice(groups, fn) ==
    LET length == IF groups = <<>> THEN 0 ELSE Len(groups[1])
        results == [p \in 1..length |-> Apply(fn, getPoint(groups, 0), p - 1)]
    IN  [groups |-> [g \in 1..Len(groups) |-> [p \in 1..length |-> results[p][g]]],
         calls |-> [p \in 1..length |->
                       [slice |-> getPoint(groups, 0), index |-> p - 1]]]

\* series.mapPoints(fn): the groups of the new series and the calls of fn in
\* the order in which they are made
mapPoints(groups, fn) ==
    LET length == IF groups = <<>> THEN 0 ELSE Len(groups[1])
        results == [p \in 1..length |-> Apply(fn, getPoint(groups, p - 1), p - 1)]
    IN  [groups |-> [g \in 1..Len(groups) |-> [p \in 1..length |-> results[p][g]]],
         calls |-> [p \in 1..length |->
                       [slice |-> getPoint(groups, p - 1), index |-> p - 1]]]

\* a series object
Series(groups, preprocess) == [groups |-> groups, preprocess |-> preprocess]

\* the preprocess object of a series no step has seen
NoPreprocess == [k \in {} |-> Null]

\* series.preprocess after lines 10-12
Marked(preprocess) ==
    Spread(preprocess, [normalizeToPercentage |-> BoolTrue, stacked |-> BoolTrue,
                        stackType |-> Str("points")])

\* most groups of a series, and most points of a group
MaxGroups == 2
MaxLength == 2

\* the values under the key of the first point of a group: numbers, null, a
\* string; those of the second point, and that of the points after it
FirstValues == {Whole(0), Whole(1), Whole(3), Whole(-1), Null, Str("x")}
LaterValues(p) == IF p = 2 THEN {Whole(1), Whole(3)} ELSE {Whole(3)}

\* the points at index p of a group; one of the first points lacks the key
PointsAt(p) ==
    IF p = 1
    THEN {[x |-> Whole(0), value |-> v] : v \in FirstValues} \cup {[x |-> Whole(0)]}
    ELSE {[x |-> Whole(p - 1), value |-> v] : v \in LaterValues(p)}

\* the groups of length points each
GroupsOf(length) ==
    {group \in [1..length -> UNION {PointsAt(p) : p \in 1..length}] :
        \A p \in 1..length : group[p] \in PointsAt(p)}

InitSeries ==
    /\ \E length \in 1..MaxLength, count \in 1..MaxGroups :
        \E groups \in [1..count -> GroupsOf(length)] :
            stores = <<Series(groups, NoPreprocess)>>
    /\ memoTables = <<>>
    /\ result = StoreRet(1)
    /\ call = [op |-> "new", recv |-> 0, fn |-> Fn("none", ""), calls |-> <<>>,
               before |-> <<>>]
    /\ budget = 1
    /\ inputs = [fns |-> {Fn("index", ""), Fn("reverse", ""), Fn("first", "")},
                 keys |-> {"value", "weight"}]

\* series.mapPoints(fn): a new series with the preprocess object of the
\* receiver
MapPoints ==
    /\ budget > 0
    /\ \E recv \in 1..Len(stores), fn \in inputs.fns :
        LET mapped == mapPoints(stores[recv].groups, fn)
        IN  /\ stores' = Append(stores, Series(mapped.groups, stores[recv].preprocess))
            /\ result' = StoreRet(Len(stores) + 1)
            /\ call' = [op |-> "mapPoints", recv |-> recv, fn |-> fn,
                        calls |-> mapped.calls, before |-> stores]
            /\ budget' = budget - 1
            /\ UNCHANGED <<memoTables, inputs>>

\* normalizeToPercentage({key})(series)
NormalizeToPercentage ==
    /\ budget > 0
    /\ \E recv \in 1..Len(stores), key \in inputs.keys :
        LET marked == [stores EXCEPT ![recv].preprocess = Marked(@)]
            mapped == mapPoints(marked[recv].groups, Fn("normalize", key))
        IN  /\ stores' = Append(marked, Series(mapped.groups, marked[recv].preprocess))
            /\ result' = StoreRet(Len(stores) + 1)
            /\ call' = [op |-> "normalizeToPercentage", recv |-> recv,
                        fn |-> Fn("normalize", key), calls |-> mapped.calls,
                        before |-> stores]
            /\ budget' = budget - 1
            /\ UNCHANGED <<memoTables, inputs>>

NextSeries == MapPoints \/ NormalizeToPercentage

SpecSeries == InitSeries /\ [][NextSeries]_vars

----------------------------------------------------------------------------
(* The earlier ChartData of src/src/records/ChartData.js and of             *)
(* src/unnamed/part_001: min, max, sum, average and median of one column.   *)

\* the cells that the rows hold under column, in row order
ColumnCells(rows, column) == [i \in 1..Len(rows) |-> RowGet(rows[i], column)]

\* operation(column) of the instance this of the version named: both
\* versions memoize under the name of the operation; records/ChartData.js
\* leaves out the rows that are null under column and turns NaN into null
\* except in sum, part_001 takes every row and returns what it computes
aggregate(this, memo, version, operation, column) ==
    LET NotNull(value) == ~IsNullish(value)
        cells == ColumnCells(this.rows, column)
        computed == IF version = "records"
                    THEN Aggregate(operation, SelectSeq(cells, NotNull))
                    ELSE Aggregate(operation, cells)
    IN  _memoize(memo, operation,
                 Ret("scalar", IF version = "records" /\ operation # "sum"
                                  /\ isNaN(computed)
                               THEN Null ELSE computed))

\* rows whose cells are numbers
NumberRows == {[day |-> d, price |-> p] : d \in DayCells, p \in PriceCells}

InitRecords ==
    /\ \E rows \in SeqsUpTo(NumberRows, MaxRows - 1), version \in {"records", "part_001"} :
        stores = <<[rows |-> rows, version |-> version, memos |-> NewMemos(1)]>>
    /\ memoTables = <<EmptyMemo>>
    /\ result = StoreRet(1)
    /\ call = [op |-> "new", recv |-> 0, column |-> "", before |-> EmptyMemo]
    /\ budget = MaxCalls
    /\ inputs = [columns |-> {"day", "price"}, operations |-> Operations]

\* min(column), max(column), sum(column), average(column), median(column)
ColumnAggregate ==
    /\ budget > 0
    /\ \E recv \in 1..Len(stores), operation \in inputs.operations,
          column \in inputs.columns :
        LET out == aggregate(stores[recv], Memo(recv), stores[recv].version,
                             operation, column)
        IN  /\ memoTables' = [memoTables EXCEPT ![stores[recv].memos] = out.memo]
            /\ result' = out.ret
            /\ call' = [op |-> operation, recv |-> recv, column |-> column,
                        before |-> Memo(recv)]
            /\ budget' = budget - 1
            /\ UNCHANGED <<stores, inputs>>

NextRecords == ColumnAggregate

SpecRecords == InitRecords /\ [][NextRecords]_vars

----------------------------------------------------------------------------
(* What the claims speak of *)

\* the receiver of the last call; instances never change once constructed
This == stores[call.recv]

Declared(this, column) == \E i \in 1..Len(this.columns) : this.columns[i].key = column

IsInteger(index) == index.d = 1

\* the number of frames of makeFrames(column)
FrameCount(this, column) == Len(GroupBy(this.rows, column))

\* the rows and columns a method's outcome stands for, or <<>> for none
Returned(out) ==
    IF out.ret.kind # "store" THEN <<>>
    ELSE IF out.created # <<>>
    THEN <<out.created[1].rows, out.created[1].columns>>
    ELSE <<stores[out.ret.v].rows, stores[out.ret.v].columns>>

\* the same for the result of the last call
ResultStore == IF result.kind # "store" THEN <<>>
               ELSE <<stores[result.v].rows, stores[result.v].columns>>

\* C1: frameAtIndex returns null whenever frameColumn is undeclared or index
\* is negative, not an integer, or at least the number of frames.
C1_FrameAtIndexRejectsBadIndex ==
    (/\ call.op = "frameAtIndex"
     /\ \/ ~Declared(This, call.column)
        \/ Lt(call.index, Whole(0))
        \/ ~IsInteger(call.index)
        \/ ~Lt(call.index, Whole(FrameCount(This, call.column))))
    => result.kind = "null"

\* C2: frameAtIndexInterpolated with declared, distinct columns and a
\* fractional index below 0 or above (frame count - 1) returns null and does
\* not throw.
C2_InterpolatedRejectsBadIndex ==
    (/\ call.op = "frameAtIndexInterpolated"
     /\ Declared(This, call.column)
     /\ Declared(This, call.primaryColumn)
     /\ call.column # call.primaryColumn
     /\ ~IsInteger(call.index)
     /\ \/ Lt(call.index, Whole(0))
        \/ Lt(Whole(FrameCount(This, call.column) - 1), call.index))
    => result.kind = "null"

\* C3: a column declared with isContinuous true or false has exactly that
\* value in the constructed store, whatever the rows hold.
C3_ExplicitContinuityKept ==
    call.op = "new" =>
        \A i \in 1..Len(call.columns) :
            call.columns[i].isContinuous \in {"true", "false"}
            => stores[1].columns[i].isContinuous = call.columns[i].isContinuous

\* C4: the store returned by updateRows or mapRows has exactly the columns of
\* the store it was called on: keys, order, labels and isContinuous.
C4_TransformKeepsColumns ==
    call.op \in {"updateRows", "mapRows"}
    => /\ result.kind = "store"
       /\ stores[result.v].columns = This.columns

\* C5 as stated: at an integral index frameAtIndexInterpolated returns what
\* frameAtIndex returns, for every primaryColumn argument.
C5_IntegralIsFrameAtIndex_AnyPrimary ==
    (call.op = "frameAtIndexInterpolated" /\ IsInteger(call.index))
    => ResultStore = Returned(frameAtIndex(This, Memo(call.recv), Len(stores) + 1,
                                           call.column, call.index))

\* C5 (amended): at an integral index frameAtIndexInterpolated returns what
\* frameAtIndex returns - the same rows and columns, or null exactly when
\* frameAtIndex returns null - provided primaryColumn is declared and is not
\* frameColumn.
C5_IntegralIsFrameAtIndex ==
    (/\ call.op = "frameAtIndexInterpolated"
     /\ IsInteger(call.index)
     /\ Declared(This, call.primaryColumn)
     /\ call.primaryColumn # call.column)
    => ResultStore = Returned(frameAtIndex(This, Memo(call.recv), Len(stores) + 1,
                                           call.column, call.index))

C5_Witness ==
    /\ call.op = "frameAtIndexInterpolated"
    /\ IsInteger(call.index)
    /\ Declared(This, call.primaryColumn)
    /\ call.primaryColumn # call.column
    /\ result.kind = "store"
    /\ Len(stores[result.v].rows) > 0

\* the last call was frameAtIndexInterpolated with declared, distinct columns
\* and a fractional index strictly between two frames
ValidFractional ==
    /\ call.op = "frameAtIndexInterpolated"
    /\ Declared(This, call.column)
    /\ Declared(This, call.primaryColumn)
    /\ call.column # call.primaryColumn
    /\ ~IsInteger(call.index)
    /\ Lt(Whole(0), call.index)
    /\ Lt(call.index, Whole(FrameCount(This, call.column) - 1))

\* the frames on either side of the index, and how far between them it is
FrameA == GroupBy(This.rows, call.column)[Floor(call.index).n + 1]
FrameB == GroupBy(This.rows, call.column)[Ceil(call.index).n + 1]
Blend == Sub(call.index, Floor(call.index))

ResultRows == stores[result.v].rows

\* how a store keeps a value it is given
AsStored(v) == IF v.t \in {"string", "number", "null"} THEN v ELSE Null

\* the first row of frame whose value of column is v
FirstWith(frame, column, v) ==
    frame[CHOOSE i \in 1..Len(frame) :
            /\ RowGet(frame[i], column) = v
            /\ \A j \in 1..(i - 1) : RowGet(frame[j], column) # v]

Has(frame, column, v) == \E i \in 1..Len(frame) : RowGet(frame[i], column) = v

\* C6 as stated: every row of the result is built from a row of frame a and a
\* row of frame b with the same primaryColumn value; a continuous column other
\* than primaryColumn holds lerp(valueA, valueB, blend), every other column
\* holds exactly the frame-a row's value.
C6_RowsInterpolated_Exact ==
    ValidFractional =>
        /\ result.kind = "store"
        /\ \A i \in 1..Len(ResultRows) :
            \E a \in 1..Len(FrameA), b \in 1..Len(FrameB) :
                /\ RowGet(FrameA[a], call.primaryColumn)
                       = RowGet(FrameB[b], call.primaryColumn)
                /\ \A c \in 1..Len(This.columns) :
                    LET key == This.columns[c].key
                    IN  RowGet(ResultRows[i], key) =
                            IF /\ This.columns[c].isContinuous = "true"
                               /\ key # call.primaryColumn
                            THEN lerp(RowGet(FrameA[a], key), RowGet(FrameB[b], key),
                                      Blend)
                            ELSE RowGet(FrameA[a], key)

\* C6 (amended): as C6, but a column that is not interpolated holds the
\* frame-a row's value as a store keeps it: null when the frame-a row has no
\* value under that key.
C6_RowsInterpolated ==
    ValidFractional =>
        /\ result.kind = "store"
        /\ \A i \in 1..Len(ResultRows) :
            \E a \in 1..Len(FrameA), b \in 1..Len(FrameB) :
                /\ RowGet(FrameA[a], call.primaryColumn)
                       = RowGet(FrameB[b], call.primaryColumn)
                /\ \A c \in 1..Len(This.columns) :
                    LET key == This.columns[c].key
                    IN  RowGet(ResultRows[i], key) =
                            IF /\ This.columns[c].isContinuous = "true"
                               /\ key # call.primaryColumn
                            THEN lerp(RowGet(FrameA[a], key), RowGet(FrameB[b], key),
                                      Blend)
                            ELSE AsStored(RowGet(FrameA[a], key))

\* an interpolated row with a number computed between two different numbers,
\* and with a column that was not interpolated
C6_Witness ==
    /\ ValidFractional
    /\ result.kind = "store"
    /\ \E i \in 1..Len(ResultRows) :
        /\ \E k \in DOMAIN ResultRows[i] : ResultRows[i][k].d > 1
        /\ \E c \in 1..Len(This.columns) :
            /\ This.columns[c].isContinuous = "false"
            /\ ResultRows[i][This.columns[c].key].t = "string"

\* the primaryColumn values the claim ranges over: those of the store's rows
\* and of the result's rows
PrimaryValues ==
    {RowGet(This.rows[i], call.primaryColumn) : i \in 1..Len(This.rows)}
    \cup {RowGet(ResultRows[i], call.primaryColumn) : i \in 1..Len(ResultRows)}

\* C7 as stated: the result has a row for a primaryColumn value if and only if
\* frame floor(index) and frame ceil(index) both have a row with that value,
\* and the call succeeds.
C7_RowIffInBothFrames_Exact ==
    ValidFractional =>
        /\ result.kind = "store"
        /\ \A v \in PrimaryValues :
            Has(ResultRows, call.primaryColumn, v)
            <=> (/\ Has(FrameA, call.primaryColumn, v)
                 /\ Has(FrameB, call.primaryColumn, v))

\* the primaryColumn values (undefined, for a row without the column, being
\* one of them) that have a row in both frames, in order of first appearance
MatchedValues ==
    LET InBoth(v) == /\ Has(FrameA, call.primaryColumn, v)
                     /\ Has(FrameB, call.primaryColumn, v)
    IN  SelectSeq(Distinct([i \in 1..Len(This.rows) |->
                              RowGet(This.rows[i], call.primaryColumn)]), InBoth)

\* C7 (amended): the call succeeds and the result has exactly one row for each
\* primaryColumn value that has a row in both frames, and no other row, where
\* rows without primaryColumn count as sharing the value undefined, distinct
\* from null, which the result keeps as null; the row is built from the first
\* row with that value of each frame.
C7_RowIffInBothFrames ==
    ValidFractional =>
        /\ result.kind = "store"
        /\ Len(ResultRows) = Len(MatchedValues)
        /\ \A i \in 1..Len(MatchedValues) :
            LET rowA == FirstWith(FrameA, call.primaryColumn, MatchedValues[i])
                rowB == FirstWith(FrameB, call.primaryColumn, MatchedValues[i])
            IN  /\ RowGet(ResultRows[i], call.primaryColumn)
                       = AsStored(MatchedValues[i])
                /\ \A c \in 1..Len(This.columns) :
                    LET key == This.columns[c].key
                    IN  RowGet(ResultRows[i], key) =
                            IF /\ This.columns[c].isContinuous = "true"
                               /\ key # call.primaryColumn
                            THEN lerp(RowGet(rowA, key), RowGet(rowB, key), Blend)
                            ELSE AsStored(RowGet(rowA, key))

\* a frame with two rows of one primaryColumn value that differ elsewhere, a
\* primaryColumn value that the other frame lacks, and a result row
C7_Witness ==
    /\ ValidFractional
    /\ result.kind = "store"
    /\ Len(ResultRows) = 1
    /\ \E i, j \in 1..Len(FrameA) :
        /\ i # j
        /\ FrameA[i] # FrameA[j]
        /\ RowGet(FrameA[i], call.primaryColumn)
               = RowGet(FrameA[j], call.primaryColumn)
        /\ Has(FrameB, call.primaryColumn, RowGet(FrameA[i], call.primaryColumn))

\* a primaryColumn value of one frame that the other lacks, and so no row
C7_WitnessDropped ==
    /\ ValidFractional
    /\ result.kind = "store"
    /\ \E i \in 1..Len(FrameA) :
        ~Has(FrameB, call.primaryColumn, RowGet(FrameA[i], call.primaryColumn))

\* C8: lerp(x, y, t) is x at t = 0, else y at t = 1, else the failure value
\* null for t outside [0,1], else null if x or y is null, else x if x or y is
\* not a number, else x + (y - x) * t; at t = 1/2 that is the midpoint.
C8_LerpDecisionOrder ==
    call.op = "lerp" =>
        LET x == call.valueA
            y == call.valueB
            t == call.index
            r == result.v
        IN  /\ t.n = 0 => r = x
            /\ (t.n = t.d) => r = y
            /\ (t.n < 0 \/ t.n > t.d) => r = Null
            /\ (0 < t.n /\ t.n < t.d) =>
                /\ (x = Null \/ y = Null) => r = Null
                /\ (x # Null /\ y # Null /\ (x.t # "number" \/ y.t # "number"))
                       => r = x
                /\ (x.t = "number" /\ y.t = "number") =>
                    /\ r.t = "number"
                    /\ r.n * x.d * y.d * t.d
                           = r.d * (x.n * y.d * t.d + (y.n * x.d - x.n * y.d) * t.n)
                    /\ (2 * t.n = t.d) => 2 * r.n * x.d * y.d
                                              = r.d * (x.n * y.d + y.n * x.d)

\* a midpoint that is not a whole number
C8_Witness ==
    /\ call.op = "lerp"
    /\ 2 * call.index.n = call.index.d
    /\ call.valueA.t = "number" /\ call.valueB.t = "number"
    /\ result.v.t = "number" /\ result.v.d = 2

\* C9 as stated: lerp(null, y, t) is null for every y and every t in [0,1].
C9_LerpNullIsNull_Closed ==
    (/\ call.op = "lerp"
     /\ call.valueA = Null
     /\ 0 <= call.index.n /\ call.index.n <= call.index.d)
    => result.v = Null

\* C9 (amended): lerp(null, y, t) is null for every y and every t with
\* 0 <= t < 1; at t = 1 it is y.
C9_LerpNullIsNull ==
    (/\ call.op = "lerp"
     /\ call.valueA = Null
     /\ 0 <= call.index.n)
    => /\ call.index.n < call.index.d => result.v = Null
       /\ call.index.n = call.index.d => result.v = call.valueB

C9_Witness ==
    /\ call.op = "lerp"
    /\ call.valueA = Null
    /\ call.valueB.t = "number"
    /\ 0 < call.index.n /\ call.index.n < call.index.d
    /\ result.v = Null

\* the last call returned a ChartData instance
ReturnsStore == result.kind = "store"

\* C10: no call changes the rows or columns of an instance that exists; a
\* call that returns an instance returns another one than its receiver, with
\* a memo table that is not the receiver's, and an instance is constructed
\* with an empty memo table that no other instance has.
C10_StoresImmutable ==
    [][/\ Len(stores') >= Len(stores)
       /\ \A i \in 1..Len(stores) :
            /\ stores'[i].rows = stores[i].rows
            /\ stores'[i].columns = stores[i].columns
       /\ ReturnsStore' =>
            /\ result'.v # call'.recv
            /\ stores'[result'.v].memos # stores'[call'.recv].memos
       /\ call'.op \in {"updateRows", "mapRows"} =>
            /\ ReturnsStore'
            /\ result'.v > Len(stores)
       /\ \A i \in (Len(stores) + 1)..Len(stores') :
            /\ memoTables'[stores'[i].memos] = EmptyMemo
            /\ \A j \in 1..Len(stores') : j # i => stores'[j].memos # stores'[i].memos
      ]_vars

\* a transform called on an instance whose memo table holds something, and a
\* query called on an instance a transform returned
C10_Witness ==
    /\ Len(stores) = 3
    /\ call.op \in {"updateRows", "mapRows"}
    /\ call.recv = 2
    /\ memoTables[stores[1].memos] # EmptyMemo
    /\ memoTables[stores[3].memos] = EmptyMemo

----------------------------------------------------------------------------
(* Memoization *)

\* the key under which call c looks its result up in the receiver's memo
\* table, or "" when the call is rejected before any lookup or has no key
CacheKey(c) ==
    CASE c.op \in {"getColumnData", "getUniqueValues", "makeFrames"} ->
            c.op \o "." \o c.column
      [] c.op \in Operations -> c.op \o "." \o Join(c.columns)
      [] c.op = "frameAtIndex" ->
            IF IsInteger(c.index)
            THEN "frameAtIndex." \o c.column \o "[" \o ToString(c.index.n) \o "]"
            ELSE ""
      [] c.op = "frameAtIndexInterpolated" ->
            IF /\ IsInteger(c.index)
               /\ Declared(stores[c.recv], c.primaryColumn)
               /\ c.primaryColumn # c.column
            THEN "frameAtIndex." \o c.column \o "[" \o ToString(c.index.n) \o "]"
            ELSE ""
      [] OTHER -> ""

\* C11: a memo entry once written is never overwritten or removed, and a call
\* whose key the receiver's memo table already holds returns the stored value
\* - a null one too - without computing anything: no entry is written and no
\* instance constructed.  So the computation behind a key runs at most once.
C11_ComputedOnce ==
    [][/\ Len(memoTables') >= Len(memoTables)
       /\ \A t \in 1..Len(memoTables) : \A k \in DOMAIN memoTables[t] :
            /\ k \in DOMAIN memoTables'[t]
            /\ memoTables'[t][k] = memoTables[t][k]
       /\ (/\ CacheKey(call') # ""
           /\ CacheKey(call') \in DOMAIN memoTables[stores[call'.recv].memos])
          => /\ result' = memoTables[stores[call'.recv].memos][CacheKey(call')]
             /\ stores' = stores
             /\ memoTables' = memoTables
      ]_vars

\* frameAtIndex called again with an index that had been found out of range:
\* the stored null is returned
C11_Witness ==
    /\ call.op = "frameAtIndex"
    /\ CacheKey(call) \in DOMAIN call.before
    /\ call.before[CacheKey(call)].kind = "null"
    /\ result.kind = "null"
    /\ Memo(call.recv) = call.before

\* an aggregate called again: the stored number is returned
C11_WitnessAggregate ==
    /\ call.op \in Operations
    /\ CacheKey(call) \in DOMAIN call.before
    /\ result.kind = "scalar"
    /\ result = call.before[CacheKey(call)]

----------------------------------------------------------------------------
(* Undeclared columns *)

\* call c names a column its receiver does not declare
UsesUndeclared(c) ==
    CASE c.op \in {"getColumnData", "getUniqueValues", "makeFrames", "frameAtIndex"} ->
            ~Declared(stores[c.recv], c.column)
      [] c.op = "frameAtIndexInterpolated" ->
            \/ ~Declared(stores[c.recv], c.column)
            \/ ~Declared(stores[c.recv], c.primaryColumn)
      [] c.op \in Operations ->
            \E i \in 1..Len(c.columns) : ~Declared(stores[c.recv], c.columns[i])
      [] OTHER -> FALSE

\* C12: a query called with an undeclared column (alone or in a list of
\* columns) returns null, does not throw, writes no memo entry and constructs
\* nothing; the instances and their memo tables are as they were, so a later
\* call with valid arguments returns what it would have returned without the
\* failed call.
C12_UndeclaredColumnIsNull ==
    [][UsesUndeclared(call') =>
        /\ result'.kind = "null"
        /\ stores' = stores
        /\ memoTables' = memoTables
      ]_vars

\* an aggregate over a declared and an undeclared column, called on an
\* instance whose memo table holds something
C12_Witness ==
    /\ call.op \in Operations
    /\ UsesUndeclared(call)
    /\ Len(call.columns) = 2
    /\ Declared(This, call.columns[1])
    /\ call.before # EmptyMemo
    /\ result.kind = "null"
    /\ Memo(call.recv) = call.before

\* frameAtIndexInterpolated with an undeclared primaryColumn
C12_WitnessInterpolated ==
    /\ call.op = "frameAtIndexInterpolated"
    /\ Declared(This, call.column)
    /\ ~Declared(This, call.primaryColumn)
    /\ result.kind = "null"

----------------------------------------------------------------------------
(* Aggregates *)

\* the cells that the columns named in the last call hold, as pairs of a row
\* number and a key: all of them, and those that are not null
NamedCells ==
    {<<i, key>> \in (1..Len(This.rows)) \X {"day", "price", "amount"} :
        /\ key \in DOMAIN This.rows[i]
        /\ \E c \in 1..Len(call.columns) : call.columns[c] = key}

NonNullCells == {p \in NamedCells : This.rows[p[1]][p[2]] # Null}

CellValue(p) == This.rows[p[1]][p[2]]

RECURSIVE Total(_)
Total(cells) ==
    IF cells = {} THEN Whole(0)
    ELSE LET p == CHOOSE q \in cells : TRUE
         IN  Add(CellValue(p), Total(cells \ {p}))

\* what another aggregate returns for the columns of the last call
Other(operation) == _aggregation(This, EmptyMemo, operation, call.columns).ret.v

AllNullColumn ==
    /\ call.op \in Operations
    /\ Len(call.columns) = 1
    /\ ~UsesUndeclared(call)
    /\ \A i \in 1..Len(This.rows) : IsNullish(RowGet(This.rows[i], call.columns[1]))

\* C14: over a declared column that is null in every row, sum returns 0 and
\* min, max, average and median return null.
C14_AllNullColumn ==
    AllNullColumn =>
        /\ result.kind = "scalar"
        /\ result.v = IF call.op = "sum" THEN Whole(0) ELSE Null

\* sum over a column that two rows hold null under
C14_Witness ==
    /\ AllNullColumn
    /\ call.op = "sum"
    /\ Len(This.rows) = 2
    /\ \A i \in 1..Len(This.rows) : RowGet(This.rows[i], call.columns[1]) = Null
    /\ result.v = Whole(0)

\* median over a column that is null in one row and absent from the other
C14_WitnessMedian ==
    /\ AllNullColumn
    /\ call.op = "median"
    /\ \E i, j \in 1..Len(This.rows) :
        /\ RowGet(This.rows[i], call.columns[1]) = Null
        /\ RowGet(This.rows[j], call.columns[1]) = Undefined
    /\ result.v = Null

----------------------------------------------------------------------------
(* Frames *)

\* the numbers of the rows of the receiver whose value of the last call's
\* column is v, and the rows themselves in the order of rows
RowsWith(v) == {i \in 1..Len(This.rows) : RowGet(This.rows[i], call.column) = v}

RECURSIVE InOrder(_)
InOrder(indexes) ==
    IF indexes = {} THEN <<>>
    ELSE LET last == CHOOSE i \in indexes : \A j \in indexes : j <= i
         IN  Append(InOrder(indexes \ {last}), This.rows[last])

First(indexes) == CHOOSE i \in indexes : \A j \in indexes : i <= j

\* C15: makeFrames(column) partitions the rows: each frame is not empty and
\* holds exactly the rows with one value of column (a row without the column
\* having the value undefined), in their order in rows; two frames have
\* different values, every row is in a frame, and the frames are in the order
\* in which their values first appear in rows.
C15_FramesPartitionRows ==
    (call.op = "makeFrames" /\ Declared(This, call.column)) =>
        /\ result.kind = "frames"
        /\ LET frames == result.v
               Value(f) == RowGet(frames[f][1], call.column)
           IN  /\ \A f \in 1..Len(frames) :
                    /\ frames[f] # <<>>
                    /\ frames[f] = InOrder(RowsWith(Value(f)))
               /\ \A f, g \in 1..Len(frames) : f # g => Value(f) # Value(g)
               /\ \A i \in 1..Len(This.rows) :
                    \E f \in 1..Len(frames) :
                        RowGet(This.rows[i], call.column) = Value(f)
               /\ \A f, g \in 1..Len(frames) :
                    f < g => First(RowsWith(Value(f))) < First(RowsWith(Value(g)))

\* rows that are not sorted by column: the first and the last row, which
\* differ, share a value that the row between them does not have
C15_Witness ==
    /\ call.op = "makeFrames"
    /\ result.kind = "frames"
    /\ Len(This.rows) = 3
    /\ Len(result.v) = 2
    /\ result.v[1] = <<This.rows[1], This.rows[3]>>
    /\ This.rows[1] # This.rows[3]
    /\ result.v[2] = <<This.rows[2]>>

\* frames in the order of first appearance where that is not the order of
\* the values: day 2 comes before day 1
C15_WitnessOrder ==
    /\ call.op = "makeFrames"
    /\ call.column = "day"
    /\ result.kind = "frames"
    /\ Len(result.v) = 2
    /\ result.v[1][1].day = Whole(2)
    /\ result.v[2][1].day = Whole(1)

----------------------------------------------------------------------------
(* Cells *)

ScalarTypes == {"string", "number", "null"}

\* C16: every cell of every row of every instance - constructed by the caller
\* or by updateRows, mapRows, frameAtIndex or frameAtIndexInterpolated - is a
\* string, a number or null; the rows of an instance made from rows the
\* caller gave (to the constructor, or as the result of an updater or mapper)
\* have the keys they were given with, a valid cell as given and any other
\* cell as null.
C16_CellsAreScalars ==
    /\ \A id \in 1..Len(stores) : \A i \in 1..Len(stores[id].rows) :
            \A key \in DOMAIN stores[id].rows[i] :
                stores[id].rows[i][key].t \in ScalarTypes
    /\ call.op \in {"new", "updateRows", "mapRows"} =>
        /\ result.kind = "store"
        /\ Len(stores[result.v].rows) = Len(call.rows)
        /\ \A i \in 1..Len(call.rows) :
            /\ DOMAIN stores[result.v].rows[i] = DOMAIN call.rows[i]
            /\ \A key \in DOMAIN call.rows[i] :
                stores[result.v].rows[i][key] =
                    IF call.rows[i][key].t \in ScalarTypes
                    THEN call.rows[i][key] ELSE Null

\* an updater that returned a row with a boolean and a row with a string
C16_Witness ==
    /\ call.op = "updateRows"
    /\ Len(call.rows) = 2
    /\ call.rows[1].amount = BoolTrue
    /\ call.rows[2].amount.t = "string"
    /\ stores[result.v].rows[1].amount = Null
    /\ stores[result.v].rows[2].amount = call.rows[2].amount

\* an interpolated frame whose rows were built with an undefined cell
C16_WitnessInterpolated ==
    /\ ValidFractional
    /\ result.kind = "store"
    /\ \E i \in 1..Len(ResultRows) :
        /\ ResultRows[i].amount = Null
        /\ \A j \in 1..Len(This.rows) : "amount" \notin DOMAIN This.rows[j]

----------------------------------------------------------------------------
(* Inferred continuity *)

\* the rows of the constructed store, which holds a cell of an invalid type
\* as null, that have a value other than null under the key of declaration
\* number c, as numbers of rows
NonNullRows(c) ==
    {i \in 1..Len(stores[1].rows) :
        ~IsNullish(RowGet(stores[1].rows[i], call.columns[c].key))}

\* C17 as stated: a column declared without isContinuous gets isContinuous
\* true only if every value of the column that is not null is a number, and
\* false if the column is absent from, or null in, every row.
C17_InferredFromAllValues ==
    call.op = "new" =>
        \A c \in 1..Len(call.columns) :
            call.columns[c].isContinuous = "undefined" =>
                /\ stores[1].columns[c].isContinuous \in {"true", "false"}
                /\ stores[1].columns[c].isContinuous = "true" =>
                    \A i \in NonNullRows(c) :
                        RowGet(stores[1].rows[i], call.columns[c].key).t = "number"
                /\ NonNullRows(c) = {} => stores[1].columns[c].isContinuous = "false"

\* C17 (amended): a column declared without isContinuous gets isContinuous
\* true if and only if the first value of the column, in row order and as the
\* store holds it, that is not null is a number; a column that is absent
\* from, or null in, every row gets false.
C17_InferredFromFirstValue ==
    call.op = "new" =>
        \A c \in 1..Len(call.columns) :
            call.columns[c].isContinuous = "undefined" =>
                stores[1].columns[c].isContinuous =
                    IF /\ NonNullRows(c) # {}
                       /\ RowGet(stores[1].rows[First(NonNullRows(c))],
                                 call.columns[c].key).t = "number"
                    THEN "true" ELSE "false"

\* a column whose first row holds null and whose second row holds a number
C17_Witness ==
    /\ call.op = "new"
    /\ call.columns[3].isContinuous = "undefined"
    /\ Len(call.rows) = 2
    /\ RowGet(call.rows[1], "amount") = Null
    /\ RowGet(call.rows[2], "amount").t = "number"
    /\ stores[1].columns[3].isContinuous = "true"

\* a column that is null in one row and absent from the other
C17_WitnessAllNull ==
    /\ call.op = "new"
    /\ call.columns[3].isContinuous = "undefined"
    /\ Len(call.rows) = 2
    /\ RowGet(call.rows[1], "amount") = Null
    /\ RowGet(call.rows[2], "amount") = Undefined
    /\ stores[1].columns[3].isContinuous = "false"

----------------------------------------------------------------------------
(* Grouped series *)

\* the last call constructed a GroupedSeries and did not throw
Accepted == call.op = "GroupedSeries" /\ result.kind = "series"

Data == call.config.data

Groups == result.v.groups

\* the pointKey values of the whole input, and their String forms
PointValues == {RowGet(Data[i], call.config.pointKey) : i \in 1..Len(Data)}

PointStrings == {String(v) : v \in PointValues}

\* the positions of group at which the point has pointKey value v, and at
\* which its pointKey value has the String form text
PositionsOf(group, v) ==
    {p \in 1..Len(group) : RowGet(group[p], call.config.pointKey) = v}

PositionsAt(group, text) ==
    {p \in 1..Len(group) : String(RowGet(group[p], call.config.pointKey)) = text}

Sources(g) == groupedItems(Data, call.config.groupKey)[g].group

\* the values that the records of group have under the keys of groupKey:
\* for each key, that of the first record that has the key
KeyValues(group) ==
    [key \in {call.config.groupKey[i] : i \in 1..Len(call.config.groupKey)} |->
        LET Has_(item) == key \in DOMAIN item
        IN  IF SelectSeq(group, Has_) = <<>> THEN Undefined
            ELSE SelectSeq(group, Has_)[1][key]]

\* C19: in every group, the point at a pointKey value for which the group has
\* no source record is defaultPoint overlaid with the group's groupKey values
\* and the pointKey value, whatever the groupKey values are; the point at a
\* pointKey value for which it has one is defaultPoint overlaid with the
\* fields of such a record.
C19_DefaultPointKeepsGroupKey ==
    Accepted =>
        \A g \in 1..Len(Groups) : \A text \in PointStrings :
            LET At(item) == String(RowGet(item, call.config.pointKey)) = text
                records == SelectSeq(Sources(g), At)
            IN  \E p \in PositionsAt(Groups[g], text) :
                    IF records = <<>>
                    THEN \E v \in PointValues :
                            /\ String(v) = text
                            /\ Groups[g][p] =
                                   Spread(Spread(call.config.defaultPoint,
                                                 KeyValues(Sources(g))),
                                          [k \in {call.config.pointKey} |-> v])
                    ELSE \E r \in 1..Len(records) :
                            Groups[g][p] = Spread(call.config.defaultPoint, records[r])

\* the position in the input of the first source record of group number g
FirstSeen(g) ==
    First({i \in 1..Len(Data) :
              GroupKeyOf(Data[i], call.config.groupKey)
                  = GroupKeyOf(Sources(g)[1], call.config.groupKey)})

\* C20: the groups are in the order in which their group keys first appear
\* in the input, whether the group-key values are strings or numbers.
C20_GroupsInFirstSeenOrder ==
    Accepted =>
        \A g, h \in 1..Len(Groups) : g < h => FirstSeen(g) < FirstSeen(h)

\* the pointKey value of point number p of group number g
PointValue(g, p) == RowGet(Groups[g][p], call.config.pointKey)

\* every group is in ascending order of pointKey under the default comparator
GroupsAscending ==
    \A g \in 1..Len(Groups) : \A p, q \in 1..Len(Groups[g]) :
        p < q => pointSort(Groups[g][p], Groups[g][q], call.config.pointKey) = -1

C22_PointKeyInGroupKeyThrows ==
    (/\ call.op = "GroupedSeries"
     /\ \E i \in 1..Len(call.config.groupKey) :
            call.config.groupKey[i] = call.config.pointKey)
        => result.kind = "throw"

\* pointKey is the second of two group keys, and there is data to group
C22_Witness ==
    /\ call.op = "GroupedSeries"
    /\ call.config.groupKey = <<"type", "x">>
    /\ call.config.pointKey = "x"
    /\ Len(Data) = 2
    /\ result.kind = "throw"

\* pointKey is the one group key
C22_WitnessSingle ==
    /\ call.op = "GroupedSeries"
    /\ call.config.groupKey = <<"x">>
    /\ Len(Data) = 1
    /\ result.kind = "throw"

----------------------------------------------------------------------------
(* Series *)

\* the groups of the receiver as the call found them, and of the series that
\* the call returned
GroupsBefore == call.before[call.recv].groups

GroupsAfter == stores[result.v].groups

\* the number of points of each group of the receiver
PointCount == Len(GroupsBefore[1])

\* point number i (from 0) of every group of the receiver, in group order
SliceAt(i) == [g \in 1..Len(GroupsBefore) |-> GroupsBefore[g][i + 1]]

\* C23: mapPoints(fn) calls fn once for each point index i, in increasing
\* order of i, with point i of every group in group order and with i; point
\* i of group g of the returned series is element g of what that call
\* returned, and the returned series has as many groups, of as many points,
\* as the receiver.
C23_MapPointsBySlice ==
    call.op = "mapPoints" =>
        /\ Len(call.calls) = PointCount
        /\ \A p \in 1..Len(call.calls) :
                call.calls[p] = [slice |-> SliceAt(p - 1), index |-> p - 1]
        /\ Len(GroupsAfter) = Len(GroupsBefore)
        /\ \A g \in 1..Len(GroupsAfter) :
                /\ Len(GroupsAfter[g]) = Len(GroupsBefore[g])
                /\ \A p \in 1..Len(GroupsAfter[g]) :
                        GroupsAfter[g][p] = Apply(call.fn, SliceAt(p - 1), p - 1)[g]

\* two groups of two points each, whose first points differ, mapped by the
\* callback that exchanges the ends of the slice
C23_Witness ==
    /\ call.op = "mapPoints"
    /\ call.fn.name = "reverse"
    /\ Len(GroupsBefore) = 2 /\ PointCount = 2
    /\ GroupsBefore[1][1] # GroupsBefore[2][1]
    /\ GroupsAfter[1][1] = GroupsBefore[2][1]
    /\ GroupsAfter[2][2] = GroupsBefore[1][2]
    /\ Len(call.calls) = 2

\* the callback that marks the points with the index
C23_WitnessIndex ==
    /\ call.op = "mapPoints"
    /\ call.fn.name = "index"
    /\ PointCount = 2
    /\ GroupsAfter[1][2].index = Whole(1)

----------------------------------------------------------------------------
(* normalizeToPercentage *)

\* the key given to normalizeToPercentage
Key == call.fn.key

\* the value of a point under the key, and what it counts for when a value
\* that is missing or is not a number counts for 0
ValueOf(point) == RowGet(point, Key)

Counted(point) == IF ValueOf(point).t = "number" THEN ValueOf(point) ELSE Whole(0)

\* the sum of what the first g points of the slice count for
RECURSIVE CountedSum(_, _)
CountedSum(slice, g) ==
    IF g = 0 THEN Whole(0) ELSE Add(CountedSum(slice, g - 1), Counted(slice[g]))

CountedTotal(slice) == CountedSum(slice, Len(slice))

\* C24: at every point index whose total is not zero, the point of group g
\* gets the input value as originalValue, value / total as percentValue and
\* (the sum of the values of the groups up to g) / total under the key; if
\* no value is negative, the new values do not decrease from group to group
\* and that of the last group is 1.
C24_StackedShares ==
    call.op = "normalizeToPercentage" =>
        \A p \in 1..PointCount :
            LET slice == SliceAt(p - 1)
                Out(g) == GroupsAfter[g][p]
            IN  CountedTotal(slice).n # 0 =>
                    /\ \A g \in 1..Len(slice) :
                            /\ Out(g).originalValue = ValueOf(slice[g])
                            /\ Out(g).percentValue
                                   = Divide(Counted(slice[g]), CountedTotal(slice))
                            /\ Out(g)[Key]
                                   = Divide(CountedSum(slice, g), CountedTotal(slice))
                    /\ (\A g \in 1..Len(slice) : Counted(slice[g]).n >= 0) =>
                            /\ \A g, h \in 1..Len(slice) :
                                    g < h => ~Lt(Out(h)[Key], Out(g)[Key])
                            /\ Out(Len(slice))[Key] = Whole(1)

\* C25: at every point index, a point whose value under the key is missing
\* or is not a number (undefined, null, a string) adds 0 to the total and to
\* the running sum: every point gets (what it counts for) / total as
\* percentValue and (the sum of what the points up to it count for) / total
\* under the key.
C25_NonNumericCountsZero ==
    call.op = "normalizeToPercentage" =>
        \A p \in 1..PointCount : \A g \in 1..Len(GroupsBefore) :
            LET slice == SliceAt(p - 1)
            IN  /\ GroupsAfter[g][p].percentValue
                       = Divide(Counted(slice[g]), CountedTotal(slice))
                /\ GroupsAfter[g][p][Key]
                       = Divide(CountedSum(slice, g), CountedTotal(slice))

\* C26: after normalizeToPercentage(config)(series) the series given has the
\* groups, the points and the preprocess object it had before the call; the
\* flags stacked, stackType and normalizeToPercentage are on the returned
\* series only.
C26_InputSeriesUntouched ==
    call.op = "normalizeToPercentage" =>
        /\ stores[call.recv].groups = call.before[call.recv].groups
        /\ stores[call.recv].preprocess = call.before[call.recv].preprocess
        /\ stores[result.v].preprocess = Marked(call.before[call.recv].preprocess)

----------------------------------------------------------------------------
(* Validation before computation *)

\* call c is one of the two frame queries
TakesIndex(c) == c.op \in {"frameAtIndex", "frameAtIndexInterpolated"}

\* call c names declared columns (two different ones if it interpolates)
\* and an index beyond the last frame, which is otherwise valid
BeyondLastFrame(c) ==
    /\ TakesIndex(c)
    /\ ~UsesUndeclared(c)
    /\ c.op = "frameAtIndexInterpolated" => c.primaryColumn # c.column
    /\ c.op = "frameAtIndex" => IsInteger(c.index)
    /\ ~Lt(c.index, Whole(0))
    /\ Lt(Whole(FrameCount(stores[c.recv], c.column) - 1), c.index)

\* call c fails a test made before anything is computed: an undeclared
\* column, a negative index, a fractional index given to frameAtIndex
FailsFirstTests(c) ==
    \/ UsesUndeclared(c)
    \/ TakesIndex(c) /\ Lt(c.index, Whole(0))
    \/ c.op = "frameAtIndex" /\ ~IsInteger(c.index)

\* C27 as stated: a call that fails validation - an undeclared column, a
\* negative or fractional index, an index beyond the last frame - computes
\* no frame grouping and writes no cache entry.
C27_RejectedBeforeComputation ==
    [][(FailsFirstTests(call') \/ BeyondLastFrame(call')) => memoTables' = memoTables
      ]_vars

\* C27 (amended): a call with an undeclared column, a negative index or, for
\* frameAtIndex, a fractional index returns null, writes no cache entry and
\* constructs nothing; a call whose index is beyond the last frame is found
\* out only after the frames are made: after it the receiver's cache holds
\* the frame grouping of frameColumn and, if the index is an integer, an
\* entry under the key of frameAtIndex.
C27_RejectedBeforeOrAfterFrames ==
    [][/\ FailsFirstTests(call') =>
            /\ result'.kind = "null"
            /\ stores' = stores
            /\ memoTables' = memoTables
       /\ BeyondLastFrame(call') =>
            LET memo == memoTables'[stores[call'.recv].memos]
            IN  /\ "makeFrames." \o call'.column \in DOMAIN memo
                /\ memo["makeFrames." \o call'.column]
                       = Ret("frames", GroupBy(stores[call'.recv].rows, call'.column))
                /\ IsInteger(call'.index) => CacheKey(call') \in DOMAIN memo
      ]_vars

\* frameAtIndex with the integer index 2 on a store of two frames: null, and
\* the cache that was empty holds the frames and the null
C27_Witness ==
    /\ call.op = "frameAtIndex"
    /\ Declared(This, call.column)
    /\ FrameCount(This, call.column) = 2
    /\ call.index = Whole(2)
    /\ call.before = EmptyMemo
    /\ result.kind = "null"
    /\ DOMAIN Memo(call.recv) = {"makeFrames." \o call.column, CacheKey(call)}

\* frameAtIndex with a negative index: null and the cache as it was
C27_WitnessNegative ==
    /\ call.op = "frameAtIndex"
    /\ Declared(This, call.column)
    /\ Lt(call.index, Whole(0))
    /\ result.kind = "null"
    /\ Memo(call.recv) = call.before

----------------------------------------------------------------------------
(* The aggregates of the earlier versions *)

\* C28: in the versions of records/ChartData.js and part_001, every call of
\* min, max, sum, average or median returns the aggregate of the column it
\* is given, whatever calls were made on the instance before: after a call
\* for one column, a call of the same operation for another column returns
\* the aggregate of that other column.
C28_AggregateOfColumnPassed ==
    call.op \in Operations =>
        result = aggregate(This, EmptyMemo, This.version, call.op, call.column).ret

----------------------------------------------------------------------------
(* Several group keys *)

\* the values that a record has under the group keys, in their order
KeyTuple(item) ==
    [k \in 1..Len(call.config.groupKey) |-> RowGet(item, call.config.groupKey[k])]

\* records number i and j of the input are source records of one group
SameGroup(i, j) ==
    \E g \in 1..Len(Groups) :
        /\ \E r \in 1..Len(Sources(g)) : Sources(g)[r] = Data[i]
        /\ \E r \in 1..Len(Sources(g)) : Sources(g)[r] = Data[j]

\* C29: with several group keys, two records are in one group if and only if
\* they have the same value under every group key; there are as many groups
\* as there are different tuples of group-key values.
C29_GroupedByKeyTuple ==
    Accepted =>
        /\ \A i, j \in 1..Len(Data) :
                SameGroup(i, j) <=> KeyTuple(Data[i]) = KeyTuple(Data[j])
        /\ Len(Groups) = Cardinality({KeyTuple(Data[i]) : i \in 1..Len(Data)})

----------------------------------------------------------------------------
(* Cache entries and arguments *)

\* what the aggregate of the last call returns when nothing is cached
Fresh == _aggregation(This, EmptyMemo, call.op, call.columns).ret

\* C30: in every sequence of aggregate calls on a store, with any declared
\* column keys, every call returns what a fresh computation for its own
\* operation and column list returns, and every entry of the store's cache
\* holds the aggregate of the arguments of each call that reads it: calls
\* with different arguments share no entry.
C30_CachedIsFresh ==
    call.op \in Operations =>
        /\ result.kind = Fresh.kind
        /\ result.kind = "scalar" => result.v = Fresh.v
        /\ result.kind = "scalar" =>
                Memo(call.recv)[call.op \o "." \o Join(call.columns)].v = Fresh.v

====
